---------------------------- MODULE Spec2Model ----------------------------
(***************************************************************************)
(* Staged autocomplete of src/main.py: GET /autocomplete?q=... answers     *)
(* with the suggestion list of the stage the query text is in.             *)
(*                                                                         *)
(* Text is modelled by TLA+ strings; a character is a string of length 1.  *)
(* A module's strings hold ASCII only, so the one non-ASCII letter of the  *)
(* model's alphabet, U+017F LATIN SMALL LETTER LONG S, is written "$".     *)
(***************************************************************************)
EXTENDS Integers, Sequences, FiniteSets, TLC

VARIABLES
    raw,       \* the query string q of the latest request of the session
    token,     \* the current token the handler took from it
    rule,      \* the rule of the chain that answered it
    result,    \* the response to it: a sequence of Suggestion records
    slot,      \* how many items of the conversation flow the user accepted
    typed,     \* how many free fragments the user typed after them
    catalogs,  \* the module-level suggestion lists (process-wide state)
    reqs       \* the requests in flight: id -> [pc, q, out]

vars == <<raw, token, rule, result, slot, typed, catalogs, reqs>>

-----------------------------------------------------------------------------
(* Characters and the str methods the handler uses.                        *)

Char(s, i) == SubSeq(s, i, i)

CharsOf(s) == {Char(s, i) : i \in 1..Len(s)}

UpperLetters == "ABCDEFGHIJKLMNOPQRSTUVWXYZ"
LowerLetters == "abcdefghijklmnopqrstuvwxyz"
Digits == "0123456789"

\* U+017F, a lower-case letter and a word character: str.lower() keeps it.
LongS == "$"

\* str.isspace(): what str.strip() removes and the pattern \s matches.
Whitespace == {" ", "\t", "\n"}

\* What the pattern \w matches (alphanumerics and the underscore).
WordChars ==
    CharsOf(UpperLetters) \cup CharsOf(LowerLetters) \cup CharsOf(Digits)
        \cup {"_", LongS}

LowerOf == [c \in CharsOf(UpperLetters) |->
               Char(LowerLetters, CHOOSE i \in 1..26 : Char(UpperLetters, i) = c)]

RECURSIVE MapRange(_, _, _, _)
\* s[lo..hi] with every character c replaced by f[c] where f is defined.
MapRange(f, s, lo, hi) ==
    IF lo > hi THEN ""
    ELSE IF lo = hi
         THEN LET c == Char(s, lo) IN IF c \in DOMAIN f THEN f[c] ELSE c
         ELSE LET mid == (lo + hi) \div 2
              IN  MapRange(f, s, lo, mid) \o MapRange(f, s, mid + 1, hi)

\* str.lower()
lower(s) == MapRange(LowerOf, s, 1, Len(s))

\* strip(" "): only blanks removed.
strip_blanks(s) ==
    LET solid == {i \in 1..Len(s) : Char(s, i) # " "}
    IN  IF solid = {} THEN ""
        ELSE SubSeq(s, CHOOSE i \in solid : \A j \in solid : i <= j,
                       CHOOSE i \in solid : \A j \in solid : j <= i)

\* str.strip(): leading and trailing whitespace removed.
strip(s) ==
    LET solid == {i \in 1..Len(s) : Char(s, i) \notin Whitespace}
    IN  IF solid = {} THEN ""
        ELSE SubSeq(s, CHOOSE i \in solid : \A j \in solid : i <= j,
                       CHOOSE i \in solid : \A j \in solid : j <= i)

\* str.startswith(p)
startswith(s, p) == Len(p) <= Len(s) /\ SubSeq(s, 1, Len(p)) = p

\* str.endswith(p)
endswith(s, p) == Len(p) <= Len(s) /\ SubSeq(s, Len(s) - Len(p) + 1, Len(s)) = p

\* p in s
contains(s, p) == \E i \in 1..(Len(s) - Len(p) + 1) : SubSeq(s, i, i + Len(p) - 1) = p

\* norm(s) = s.strip().lower()
norm(s) == lower(strip(s))

-----------------------------------------------------------------------------
(* The regular expressions of the handler.                                 *)

IsWordAt(s, i) == i >= 1 /\ i <= Len(s) /\ Char(s, i) \in WordChars

\* \b between s[k] and s[k+1] (k = 0: the start; k = Len(s): the end).
Boundary(s, k) == IsWordAt(s, k) # IsWordAt(s, k + 1)

\* The positions where w matches in s, the pattern written without \b.
WordMatches_unanchored(s, w) ==
    {i \in 1..(Len(s) - Len(w) + 1) : SubSeq(s, i, i + Len(w) - 1) = w}

\* The positions where \bw\b matches in s.
WordMatches(s, w) ==
    {i \in 1..(Len(s) - Len(w) + 1) :
        /\ SubSeq(s, i, i + Len(w) - 1) = w
        /\ Boundary(s, i - 1)
        /\ Boundary(s, i + Len(w) - 1)}

\* re.search(r"\b(w1|w2|...)\b", s) is not None
search_word(s, ws) == \E w \in ws : WordMatches(s, w) # {}

\* re.split(r"\bw\b", s, maxsplit=1)[1].strip(), given that w matches.
after_word(s, w) ==
    LET hits == WordMatches(s, w)
        i == CHOOSE h \in hits : \A g \in hits : h <= g
    IN  strip(SubSeq(s, i + Len(w), Len(s)))

\* re.search(r"(\S+)\s*$", s): group(1) of the leftmost match, "" without one.
last_run(s) ==
    LET solid == {i \in 1..Len(s) : Char(s, i) \notin Whitespace}
    IN  IF solid = {} THEN ""
        ELSE LET e == CHOOSE i \in solid : \A j \in solid : j <= i
                 b == CHOOSE i \in 1..e :
                         /\ \A j \in i..e : j \in solid
                         /\ (i - 1) \notin solid
             IN  SubSeq(s, b, e)

\* The handler's current token.
current_token(s) == IF endswith(s, " ") THEN "" ELSE last_run(s)

-----------------------------------------------------------------------------
(* The staged suggestion lists, as declared.                               *)

Suggestion(d, t) == [display |-> d, type |-> t]

INITIAL_PHRASES ==
    << Suggestion("I want to book a", "starter"),
       Suggestion("Book me a", "starter"),
       Suggestion("Find me a", "starter") >>

SERVICES ==
    << Suggestion("flight", "service"),
       Suggestion("hotel", "service") >>

CITIES ==
    << Suggestion("Chhatrapati Shivaji Maharaj International Airport, Mumbai (BOM)", "city"),
       Suggestion("Indira Gandhi International Airport, New Delhi (DEL)", "city"),
       Suggestion("Kempegowda International Airport, Bengaluru (BLR)", "city"),
       Suggestion("Chennai International Airport, Chennai (MAA)", "city"),
       Suggestion("Goa Dabolim International Airport, Goa (GOI)", "city") >>

PEOPLE ==
    << Suggestion("1 adult", "people"),
       Suggestion("2 adults", "people"),
       Suggestion("1 child", "people"),
       Suggestion("2 adults 1 child", "people") >>

SEATS ==
    << Suggestion("Window", "seat"),
       Suggestion("Aisle", "seat"),
       Suggestion("Middle", "seat"),
       Suggestion("Any", "seat") >>

MEALS ==
    << Suggestion("Vegetarian", "meal"),
       Suggestion("Non-vegetarian", "meal"),
       Suggestion("Vegan", "meal"),
       Suggestion("Kosher", "meal"),
       Suggestion("Halal", "meal"),
       Suggestion("No preference", "meal") >>

\* The connector suggestions the handler builds inline.
FROM_CONNECTOR == << Suggestion("from", "connector") >>
TO_CONNECTOR == << Suggestion("to", "connector") >>

\* The module-level lists as the process holds them after import.
Declared ==
    [ INITIAL_PHRASES |-> INITIAL_PHRASES, SERVICES |-> SERVICES,
      CITIES |-> CITIES, PEOPLE |-> PEOPLE, SEATS |-> SEATS, MEALS |-> MEALS ]

DEFAULT_LIMIT == 1

Max(a, b) == IF a >= b THEN a ELSE b
Min(a, b) == IF a <= b THEN a ELSE b

-----------------------------------------------------------------------------
(* find_matching_list                                                      *)

\* [c for c in candidates if norm(c["display"]).startswith(token)]
prefix_matches(tok, candidates) ==
    LET starts(c) == startswith(norm(c.display), tok)
    IN  SelectSeq(candidates, starts)

\* The filter with "token in display" for the prefix test.
find_matching_list_substring(query_token, candidates, prefer_all) ==
    LET inside(c) == contains(norm(c.display), lower(query_token))
        pref == SelectSeq(candidates, inside)
    IN  IF query_token = "" \/ pref = << >> THEN candidates ELSE pref

\* The filter without the fall back to the full list.
find_matching_list_no_fallback(query_token, candidates, prefer_all) ==
    IF query_token = "" THEN candidates
    ELSE prefix_matches(lower(query_token), candidates)

\* The filter comparing the token as typed, not lower-cased.
find_matching_list_case_sensitive(query_token, candidates, prefer_all) ==
    LET pref == prefix_matches(query_token, candidates)
    IN  IF query_token = "" \/ pref = << >> THEN candidates ELSE pref

\* The filter that puts the matches first and keeps the rest behind them.
find_matching_list_matches_first(query_token, candidates, prefer_all) ==
    IF query_token = "" THEN candidates
    ELSE prefix_matches(lower(query_token), candidates) \o candidates

find_matching_list(query_token, candidates, prefer_all) ==
    IF prefer_all
    THEN IF query_token = "" THEN candidates
         ELSE LET pref == prefix_matches(lower(query_token), candidates)
              IN  IF pref # << >> THEN pref ELSE candidates
    ELSE IF query_token = ""
         THEN SubSeq(candidates, 1,
                     Min(Len(candidates), Max(Len(candidates), DEFAULT_LIMIT)))
         ELSE LET filtered == prefix_matches(lower(query_token), candidates)
              IN  IF filtered # << >> THEN filtered ELSE candidates

-----------------------------------------------------------------------------
(* autocomplete: the ordered, first-match-wins chain.                      *)

PEOPLE_WORDS == {"adult", "adults", "child", "children"}
SEAT_WORDS == {"window", "aisle", "middle", "any"}
MEAL_WORDS == {"vegetarian", "non-vegetarian", "vegan", "kosher", "halal", "no preference"}
STARTERS == {"i want to book a", "book me a", "find me a"}

has_flight(q_lower) == contains(q_lower, "flight")
has_hotel(q_lower) == contains(q_lower, "hotel")
has_from(q_lower) == WordMatches(q_lower, "from") # {}
has_to(q_lower) == WordMatches(q_lower, "to") # {}

has_destination(q_lower) ==
    /\ has_from(q_lower)
    /\ has_to(q_lower)
    /\ after_word(q_lower, "to") # ""

Stage(fired, candidates, prefer_all) ==
    [rule |-> fired, candidates |-> candidates, prefer_all |-> prefer_all]

\* The return statement the chain reaches for query q over the lists cat:
\* which rule fired, the candidate list it passes on, and its prefer_all.
classify(cat, q) ==
    LET q_lower == lower(strip(q))
        current == current_token(q)
        mid(after) == after = "" \/ (current # "" /\ after = lower(current))
    IN  IF strip(q) = ""
            THEN Stage("1", cat.INITIAL_PHRASES, TRUE)
        ELSE IF /\ \E s \in STARTERS : startswith(q_lower, s)
                /\ ~has_flight(q_lower) /\ ~has_hotel(q_lower)
            THEN Stage("2", cat.SERVICES, TRUE)
        ELSE IF has_flight(q_lower) /\ ~has_from(q_lower)
            THEN Stage("3", FROM_CONNECTOR, FALSE)
        ELSE IF has_from(q_lower) /\ mid(after_word(q_lower, "from"))
            THEN Stage("4a", cat.CITIES, TRUE)
        ELSE IF has_from(q_lower) /\ ~has_to(q_lower)
            THEN Stage("4b", TO_CONNECTOR, FALSE)
        ELSE IF has_to(q_lower) /\ mid(after_word(q_lower, "to"))
            THEN Stage("5", cat.CITIES, TRUE)
        ELSE IF has_destination(q_lower) /\ ~search_word(q_lower, PEOPLE_WORDS)
            THEN Stage("6", cat.PEOPLE, TRUE)
        ELSE IF search_word(q_lower, PEOPLE_WORDS) /\ ~search_word(q_lower, SEAT_WORDS)
            THEN Stage("7", cat.SEATS, TRUE)
        ELSE IF search_word(q_lower, SEAT_WORDS) /\ ~search_word(q_lower, MEAL_WORDS)
            THEN Stage("8", cat.MEALS, TRUE)
        ELSE Stage("9", cat.SERVICES \o cat.CITIES, FALSE)

\* The handler's response to q over the lists cat.
resolve(cat, q) ==
    LET st == classify(cat, q)
    IN  IF st.rule = "1" THEN st.candidates
        ELSE find_matching_list(current_token(q), st.candidates, st.prefer_all)

\* GET /autocomplete?q=...: the handler reads the process's lists.
autocomplete(q) == resolve(catalogs, q)

-----------------------------------------------------------------------------
(* A typing session: the client asks for suggestions after every edit.     *)

\* How many free fragments the user types in one session.
MaxTyped == 1

\* How many requests the server runs at once.
NumWorkers == 3

Displays(list) == {list[i].display : i \in 1..Len(list)}

\* The words a user types for the successive items of the flow.
FlowWords ==
    << Displays(INITIAL_PHRASES), {"flight", "hotel"}, {"from"}, {"Mumbai"},
       {"to"}, {"Delhi"}, {"1 adult"}, {"Window"}, {"Vegan"} >>

\* The items a user picks from the suggestion lists along the flow.
FlowSuggestions ==
    << Displays(INITIAL_PHRASES), {"flight"}, {"from"}, Displays(CITIES),
       {"to"}, Displays(CITIES), Displays(PEOPLE), Displays(SEATS) >>

\* Text typed without finishing the flow item: partial tokens, other
\* spellings, words that hold a keyword, whitespace.
Fragments ==
    { "fl", "FL", "x", "t", "C", "1", "an", "No",
      " ", "\t", "\n", "fl\t",
      "hotel", "tomato", "fromage", "adult$" }

\* The queries of the concurrent clients.
Queries ==
    { "", "Book me a ", "Book me a hotel ", "Book me a flight from Mumbai to D",
      "I want to book a fl" }

Idle == [pc |-> "idle", q |-> "", out |-> << >>]

\* The lists are as declared, no request is in flight, and the session has
\* had its first request, with the default q = "", answered.
Init ==
    /\ raw = ""
    /\ token = current_token("")
    /\ rule = classify(Declared, "").rule
    /\ result = resolve(Declared, "")
    /\ slot = 0
    /\ typed = 0
    /\ catalogs = Declared
    /\ reqs = [r \in 1..NumWorkers |-> Idle]

\* The client sends q and shows the response.
Request(q) ==
    /\ raw' = q
    /\ token' = current_token(q)
    /\ rule' = classify(catalogs, q).rule
    /\ result' = autocomplete(q)

\* The user completes the next item of the flow with w and a space.
Accept(w) ==
    /\ typed = 0
    /\ Request(raw \o w \o " ")
    /\ slot' = slot + 1
    /\ UNCHANGED <<typed, catalogs, reqs>>

\* The user types the fragment f.
Type(f) ==
    /\ typed < MaxTyped
    /\ Request(raw \o f)
    /\ typed' = typed + 1
    /\ UNCHANGED <<slot, catalogs, reqs>>

Next ==
    \/ \E w \in (IF slot < Len(FlowWords) THEN FlowWords[slot + 1] ELSE {}) : Accept(w)
    \/ \E f \in Fragments : Type(f)

Spec == Init /\ [][Next]_vars

\* The flow alone: every step accepts one suggestion.
NextFlow ==
    \E w \in (IF slot < Len(FlowSuggestions) THEN FlowSuggestions[slot + 1] ELSE {}) :
        Accept(w)

SpecFlow == Init /\ [][NextFlow]_vars

-----------------------------------------------------------------------------
(* The server: the handler is a plain def, so requests run on the thread   *)
(* pool at once, all reading the module-level lists.                       *)

\* Request r arrives with query q.
Receive(r, q) ==
    /\ reqs[r].pc = "idle"
    /\ reqs' = [reqs EXCEPT ![r] = [pc |-> "running", q |-> q, out |-> << >>]]
    /\ UNCHANGED <<raw, token, rule, result, slot, typed, catalogs>>

\* The handler with the fallback list built in place:
\* fallback = SERVICES; fallback += CITIES.
Handle_in_place(r) ==
    /\ reqs[r].pc = "running"
    /\ reqs' = [reqs EXCEPT ![r].pc = "done", ![r].out = autocomplete(reqs[r].q)]
    /\ catalogs' = IF classify(catalogs, reqs[r].q).rule = "9"
                   THEN [catalogs EXCEPT !.SERVICES = @ \o catalogs.CITIES]
                   ELSE catalogs
    /\ UNCHANGED <<raw, token, rule, result, slot, typed>>

\* A worker thread runs the handler for request r.
Handle(r) ==
    /\ reqs[r].pc = "running"
    /\ reqs' = [reqs EXCEPT ![r].pc = "done", ![r].out = autocomplete(reqs[r].q)]
    /\ UNCHANGED <<raw, token, rule, result, slot, typed, catalogs>>

\* The response of request r is sent; its slot is free again.
Respond(r) ==
    /\ reqs[r].pc = "done"
    /\ reqs' = [reqs EXCEPT ![r] = Idle]
    /\ UNCHANGED <<raw, token, rule, result, slot, typed, catalogs>>

NextServe ==
    \E r \in 1..NumWorkers :
        \/ \E q \in Queries : Receive(r, q)
        \/ Handle(r)
        \/ Respond(r)

SpecServe == Init /\ [][NextServe]_vars

-----------------------------------------------------------------------------
(* Vocabulary of the properties.                                           *)

AllWhitespace(s) == \A i \in 1..Len(s) : Char(s, i) \in Whitespace

EndsInWhitespace(s) == s # "" /\ Char(s, Len(s)) \in Whitespace

\* The maximal trailing run of non-whitespace characters of s.
TrailingRun(s) ==
    LET starts == {i \in 1..(Len(s) + 1) :
                      \A j \in i..Len(s) : Char(s, j) \notin Whitespace}
    IN  SubSeq(s, CHOOSE i \in starts : \A j \in starts : i <= j, Len(s))

\* Display d starts with token t, letter case set aside.
StartsCI(d, t) == Len(t) <= Len(d) /\ lower(SubSeq(d, 1, Len(t))) = lower(t)

\* The positions of list C whose display starts with token t.
Hits(C, t) == {i \in 1..Len(C) : StartsCI(C[i].display, t)}

\* The items of list C at the positions idx, in the order of C.
Pick(C, idx) ==
    [k \in 1..Cardinality(idx) |->
        C[CHOOSE i \in idx : Cardinality({j \in idx : j <= i}) = k]]

\* The words of s: its maximal runs of word characters.
Words(s) ==
    LET first == {i \in 1..Len(s) : IsWordAt(s, i) /\ ~IsWordAt(s, i - 1)}
        last(i) == CHOOSE j \in i..Len(s) :
                       /\ \A k \in i..j : IsWordAt(s, k)
                       /\ ~IsWordAt(s, j + 1)
    IN  {SubSeq(s, i, last(i)) : i \in first}

RECURSIVE EmbedsFrom(_, _, _, _)
\* a[i..] is found in b[j..] in order, each item at most once.
EmbedsFrom(a, i, b, j) ==
    IF i > Len(a) THEN TRUE
    ELSE IF j > Len(b) THEN FALSE
    ELSE IF a[i] = b[j] THEN EmbedsFrom(a, i + 1, b, j + 1)
    ELSE EmbedsFrom(a, i, b, j + 1)

IsSubsequence(a, b) == EmbedsFrom(a, 1, b, 1)

NoDuplicates(a) == \A i, j \in 1..Len(a) : a[i] = a[j] => i = j

\* The candidate lists a response is drawn from.
CandidateLists ==
    { INITIAL_PHRASES, SERVICES, FROM_CONNECTOR, TO_CONNECTOR, CITIES, PEOPLE,
      SEATS, MEALS, SERVICES \o CITIES }

\* The catalog each rule of the chain answers from.
StageCatalog ==
    [r \in {"1", "2", "3", "4a", "4b", "5", "6", "7", "8", "9"} |->
        CASE r = "1" -> INITIAL_PHRASES
          [] r = "2" -> SERVICES
          [] r = "3" -> FROM_CONNECTOR
          [] r \in {"4a", "5"} -> CITIES
          [] r = "4b" -> TO_CONNECTOR
          [] r = "6" -> PEOPLE
          [] r = "7" -> SEATS
          [] r = "8" -> MEALS
          [] r = "9" -> SERVICES \o CITIES]

\* The stage results of the flow, in order.
FlowStages ==
    << INITIAL_PHRASES, SERVICES, FROM_CONNECTOR, CITIES, TO_CONNECTOR, CITIES,
       PEOPLE, SEATS, MEALS >>

\* str.upper(): the upper-case form of U+017F is "S".
UpperOf == [c \in CharsOf(LowerLetters) \cup {LongS} |->
               IF c = LongS THEN "S"
               ELSE Char(UpperLetters, CHOOSE i \in 1..26 : Char(LowerLetters, i) = c)]

upper(s) == MapRange(UpperOf, s, 1, Len(s))

\* Case changes of the letters A-Z and a-z only.
AsciiUpperOf == [c \in CharsOf(LowerLetters) |-> UpperOf[c]]
AsciiSwapOf == [c \in CharsOf(LowerLetters) \cup CharsOf(UpperLetters) |->
                   IF c \in DOMAIN LowerOf THEN LowerOf[c] ELSE UpperOf[c]]
AsciiCaseVariants(s) ==
    { MapRange(AsciiUpperOf, s, 1, Len(s)),
      MapRange(LowerOf, s, 1, Len(s)),
      MapRange(AsciiSwapOf, s, 1, Len(s)) }

-----------------------------------------------------------------------------
(* C1: for every starter phrase S and origin word X, the query             *)
(* S + " flight from " + X + " to " is answered with the full city         *)
(* catalog in declared order (the destination stage).                      *)
C1_DestinationCities ==
    \A S \in Displays(INITIAL_PHRASES), X \in FlowWords[4] :
        raw = S \o " flight from " \o X \o " to " => result = CITIES

(* C2: along the flow (starter, "flight", "from", origin city, "to",       *)
(* destination city, people count, seat), the successive responses are     *)
(* the starters, the services, the "from" connector, the cities, the "to"  *)
(* connector, the cities, the people counts, the seats and the meals, for  *)
(* each of the three starters.                                             *)
C2_StageOrder == result = FlowStages[slot + 1]

(* C3: the current token is the maximal trailing run of non-whitespace     *)
(* characters; for an input that is empty or ends in a whitespace          *)
(* character it is empty and the stage's catalog comes back unfiltered.    *)
C3_CurrentToken ==
    /\ token = TrailingRun(raw)
    /\ (raw = "" \/ EndsInWhitespace(raw)) =>
           /\ token = ""
           /\ result = StageCatalog[rule]

(* C4: a query that is empty or whitespace only is answered with the full  *)
(* starter catalog, all three items in declared order.                     *)
C4_EmptyQueryStarters == AllWhitespace(raw) => result = INITIAL_PHRASES

C4_Witness == raw # "" /\ AllWhitespace(raw) /\ result = INITIAL_PHRASES

C6_Fallback ==
    LET C == StageCatalog[rule]
    IN  /\ result # << >>
        /\ Hits(C, token) = {} => result = C

C6_Witness ==
    LET C == StageCatalog[rule]
    IN  /\ token # ""
        /\ Hits(C, token) = {}
        /\ Len(C) > 1
        /\ result = C

(* C7: the "from" and "to" flags are set only by the keyword as a whole    *)
(* word, never by its letters inside a longer word, and a query without    *)
(* the word "to" reaches neither the destination rule 5 nor the people     *)
(* rule 6.                                                                 *)
C7_WordBoundary ==
    LET q_lower == lower(strip(raw))
    IN  /\ has_from(q_lower) => "from" \in Words(q_lower)
        /\ has_to(q_lower) => "to" \in Words(q_lower)
        /\ "to" \notin Words(q_lower) =>
               /\ rule \notin {"5", "6"}
               /\ result # PEOPLE

C7_Witness ==
    LET q_lower == lower(strip(raw))
    IN  /\ contains(q_lower, "to")
        /\ "to" \notin Words(q_lower)
        /\ startswith(q_lower, "book me a hotel")
        /\ result = SERVICES \o CITIES

(* C8: the response to a query is the response to the same query with the  *)
(* case of its letters changed (upper-cased, lower-cased).                 *)
C8_CaseInsensitive ==
    /\ result = resolve(catalogs, upper(raw))
    /\ result = resolve(catalogs, lower(raw))

(* C8, amended: the response to a query is the response to the same query  *)
(* with the case of its letters A-Z, a-z changed.                          *)
C8_AsciiCaseInsensitive ==
    \A v \in AsciiCaseVariants(raw) : resolve(catalogs, v) = result

C8_Witness ==
    /\ Cardinality(AsciiCaseVariants(raw) \cup {raw}) = 4
    /\ token # ""
    /\ Len(result) < Len(StageCatalog[rule])

(* C9: whatever requests run before, between or at the same time, the      *)
(* response of a request is a function of its own q: no request changes    *)
(* the lists, and two requests with the same q get the same response.      *)
C9_Stateless ==
    /\ catalogs = Declared
    /\ \A r \in DOMAIN reqs :
           reqs[r].pc = "done" => reqs[r].out = resolve(Declared, reqs[r].q)
    /\ \A r1, r2 \in DOMAIN reqs :
           (reqs[r1].pc = "done" /\ reqs[r2].pc = "done" /\ reqs[r1].q = reqs[r2].q)
               => reqs[r1].out = reqs[r2].out

C9_Witness ==
    \E r1, r2, r3 \in DOMAIN reqs :
        /\ r1 # r2
        /\ reqs[r1].pc = "done" /\ reqs[r2].pc = "done" /\ reqs[r3].pc = "done"
        /\ reqs[r1].q = "Book me a " /\ reqs[r2].q = "Book me a "
        /\ reqs[r3].q = "Book me a hotel "
        /\ reqs[r1].out = reqs[r2].out

(* C10: every response is an order-preserving, duplicate-free subsequence  *)
(* of one candidate list; its items share one type except in the fallback, *)
(* where every service comes before every city.                            *)
C10_OneList ==
    LET fallback == rule = "9"
    IN  /\ \E L \in CandidateLists :
               /\ IsSubsequence(result, L)
               /\ ~fallback => L # SERVICES \o CITIES
        /\ NoDuplicates(result)
        /\ ~fallback => \A i, j \in 1..Len(result) : result[i].type = result[j].type
        /\ \A i, j \in 1..Len(result) :
               (result[i].type = "city" /\ result[j].type = "service") => j < i

C10_Witness ==
    /\ rule = "9"
    /\ \E i, j \in 1..Len(result) :
           result[i].type = "service" /\ result[j].type = "city"

=============================================================================
